---- MODULE Spec2Model ----
(***************************************************************************)
(* The index export command of dc-cli: handler and processIndexes of the   *)
(* "export <dir>" command.  The handler lists the indexes of a hub, fans   *)
(* out settings, content-type assignment and webhook fetches with          *)
(* Promise.all, expands the replicas of each index in two sequential       *)
(* loops, assembles one IndexEntry per index without parentId, and hands   *)
(* the result to processIndexes, which asks before overwriting and writes  *)
(* one JSON file.                                                          *)
(*                                                                         *)
(* Positions are 1-based here (0-based in the source).  A request is       *)
(* named by the key <<stage, position, j>>; j is the position inside a     *)
(* replica batch and 0 elsewhere.                                          *)
(***************************************************************************)
EXTENDS Integers, Sequences, FiniteSets, TLC

VARIABLES
  pc,                          \* where the handler is suspended
  status,                      \* every request issued so far -> pending/ok/rejected
  values,                      \* result slots of the Promise.all being awaited
  indexesListDetails,
  settingsList,
  assignedContentTypesList,
  activeContentWebhooks,
  archivedContentWebhooks,
  activeContentWebhooksList,
  archivedContentWebhooksList,
  replicas,
  replicaIndexesList,
  replicaIndexSettingsList,
  i,                           \* loop variable of the two replica loops
  finalIndexesListDetails,
  file,                        \* the file at uniqueFilename, once looked at
  error,                       \* what the handler rejected with
  writeCalls,                  \* calls of writeJsonToFile
  proceed,                     \* what promptToExportSettings answered
  paths                        \* the path the gate was asked about, the path written

locals == <<indexesListDetails, settingsList, assignedContentTypesList,
            activeContentWebhooks, archivedContentWebhooks,
            activeContentWebhooksList, archivedContentWebhooksList,
            replicas, replicaIndexesList, replicaIndexSettingsList, i,
            finalIndexesListDetails>>

vars == <<pc, status, values, locals, file, error, writeCalls, proceed, paths>>

\* The longest index listing the remote returns.
MaxIndexes == 2

\* JavaScript null.
Null == "null"

NoError == <<"none", 0, 0>>

ACTIVE == "active-content-webhook"

ARCHIVED == "archived-content-webhook"

(***************************************************************************)
(* The remote directory and webhook service.                               *)
(***************************************************************************)

\* The index summaries of the hub; a summary with parentId is a replica.
Directory ==
  { [id |-> "i1", name |-> "Main"],
    [id |-> "i2", name |-> "MainReplica", parentId |-> "i1"],
    [id |-> "i3", name |-> "Other"],
    [id |-> "i4", name |-> "Backup", parentId |-> "i3"],
    [id |-> "i5", name |-> "Plain"] }

\* fetchClient.getIdexesDetailsList(): any ordered listing, repeats included.
Listings == UNION { [1..n -> Directory] : n \in 0..MaxIndexes }

\* fetchClient.getIndexSettings(id); the replicas field may be absent.
getIndexSettings(id) ==
  CASE id = "i1" -> [of |-> "i1", replicas |-> <<"MainReplica">>]
    [] id = "i2" -> [of |-> "i2"]
    [] id = "i3" -> [of |-> "i3", replicas |-> <<"Backup", "MainReplica">>]
    [] id = "i4" -> [of |-> "i4", replicas |-> <<"Plain">>]
    [] OTHER     -> [of |-> id]

\* fetchClient.getIndexByName(name)
getIndexByName(name) == CHOOSE d \in Directory : d.name = name

\* The id of the webhook a link of the k-th assignment of index id points to.
WebhookId(rel, id, k) ==
  (IF rel = ACTIVE THEN "wa-" ELSE "wr-") \o id \o "-" \o k

\* One content-type assignment; href is the link split at "/".
Assignment(id, k, rels) ==
  [ contentTypeUri |-> "ct-" \o id \o "-" \o k,
    _links |-> [rel \in rels |-> [href |-> <<"hubs", "h1", "webhooks", WebhookId(rel, id, k)>>]] ]

\* fetchClient.getIndexAssignedContentTypes(id): what the remote may answer.
AssignedContentTypesOf(id) ==
  { <<>>,
    <<Assignment(id, "1", {ACTIVE, ARCHIVED})>>,
    <<Assignment(id, "1", {ARCHIVED})>>,
    <<Assignment(id, "1", {ACTIVE})>>,
    <<Assignment(id, "1", {ACTIVE, ARCHIVED}), Assignment(id, "2", {ACTIVE, ARCHIVED})>> }

\* hub.related.webhooks.get(id)
getWebhook(id) == [id |-> id, customPayload |-> [value |-> "payload:" \o id]]

(***************************************************************************)
(* Helpers of the handler.                                                 *)
(***************************************************************************)

\* href.split('/').slice(-1)[0]
LastSegment(href) == href[Len(href)]

\* JavaScript truthiness of a webhook reference (a string or null).
Truthy(item) == item # Null /\ item # ""

\* IsReplica with the parentId test lost: every index counts as top-level
IsReplicaNever(item) == FALSE

\* !item.parentId
IsReplica(item) == "parentId" \in DOMAIN item /\ Truthy(item.parentId)

\* settings.replicas || []
ReplicasOf(settings) ==
  IF "replicas" \in DOMAIN settings THEN settings.replicas ELSE <<>>

\* x && x.customPayload.value; a list element is <<>> for null, <<webhook>> otherwise
PayloadOf(x) == IF x = <<>> THEN Null ELSE x[1].customPayload.value

\* The resolved value of a Promise.all over n inputs.
Resolved(n) == [p \in 1..n |-> values[p]]

Settled(n) == DOMAIN values = 1..n

Fresh(keys) == [k \in keys |-> "pending"]

Range(s) == { s[p] : p \in DOMAIN s }

\* type._links[rel] is undefined for the first assignment of some index
MissingLink(list) ==
  \E p \in DOMAIN list :
    /\ Len(list[p]) > 0
    /\ {ACTIVE, ARCHIVED} \ DOMAIN list[p][1]._links # {}

\* WebhookRef reading the last assignment instead of types[0]
WebhookRefLastAssignment(types, rel) ==
  IF Len(types) > 0 THEN LastSegment(types[Len(types)]._links[rel].href) ELSE Null

\* WebhookRef taking the first segment of the href, slice(0) for slice(-1)
WebhookRefFirstSegment(types, rel) ==
  IF Len(types) > 0 THEN types[1]._links[rel].href[1] ELSE Null

\* activeContentWebhooks[i] / archivedContentWebhooks[i]
WebhookRef(types, rel) ==
  IF Len(types) > 0 THEN LastSegment(types[1]._links[rel].href) ELSE Null

Init ==
  /\ pc = "start"
  /\ status = <<>>
  /\ values = <<>>
  /\ indexesListDetails = <<>>
  /\ settingsList = <<>>
  /\ assignedContentTypesList = <<>>
  /\ activeContentWebhooks = <<>>
  /\ archivedContentWebhooks = <<>>
  /\ activeContentWebhooksList = <<>>
  /\ archivedContentWebhooksList = <<>>
  /\ replicas = <<>>
  /\ replicaIndexesList = <<>>
  /\ replicaIndexSettingsList = <<>>
  /\ i = 1
  /\ finalIndexesListDetails = <<>>
  /\ file = [state |-> "unobserved", doc |-> <<>>]
  /\ error = NoError
  /\ writeCalls = 0
  /\ proceed = "unasked"
  /\ paths = [prompted |-> <<>>, written |-> <<>>]

(***************************************************************************)
(* The handler up to the webhook lookups.                                  *)
(***************************************************************************)

\* hub.get, fetchClient.init and the listing request
Start ==
  /\ pc = "start"
  /\ pc' = "list"
  /\ status' = Fresh({<<"list", 0, 0>>})
  /\ UNCHANGED <<values, locals, file, error, writeCalls, proceed, paths>>

ListResponse ==
  /\ <<"list", 0, 0>> \in DOMAIN status
  /\ status[<<"list", 0, 0>>] = "pending"
  /\ \E l \in Listings : indexesListDetails' = l
  /\ status' = [status EXCEPT ![<<"list", 0, 0>>] = "ok"]
  /\ UNCHANGED <<pc, values, settingsList, assignedContentTypesList,
                 activeContentWebhooks, archivedContentWebhooks,
                 activeContentWebhooksList, archivedContentWebhooksList,
                 replicas, replicaIndexesList, replicaIndexSettingsList, i,
                 finalIndexesListDetails, file, error, writeCalls, proceed, paths>>

\* indexesListDetails.length > 0: Promise.all over getIndexSettings(item.id)
RetrieveSettings ==
  /\ pc = "list"
  /\ status[<<"list", 0, 0>>] = "ok"
  /\ Len(indexesListDetails) > 0
  /\ pc' = "settings"
  /\ status' = status @@ Fresh({<<"settings", p, 0>> : p \in DOMAIN indexesListDetails})
  /\ values' = <<>>
  /\ UNCHANGED <<locals, file, error, writeCalls, proceed, paths>>

\* Slot found by id: the first position of the listing with the same id
SlotById(p) ==
  IF p \in DOMAIN indexesListDetails
    THEN CHOOSE q \in DOMAIN indexesListDetails :
           /\ indexesListDetails[q].id = indexesListDetails[p].id
           /\ \A r \in 1..(q - 1) : indexesListDetails[r].id # indexesListDetails[p].id
    ELSE p

\* Slot as push-on-completion: the next free slot, whatever the position
SlotByArrival(p) == Cardinality(DOMAIN values) + 1

\* The slot of a Promise.all that the response to the request at position p fills.
Slot(p) == p

\* A response arrives: Promise.all stores it in the slot of its position.
Fulfil(k, p, v) ==
  /\ k \in DOMAIN status
  /\ status[k] = "pending"
  /\ status' = [status EXCEPT ![k] = "ok"]
  /\ values' = (Slot(p) :> v) @@ values

SettingsResponse ==
  /\ \E p \in DOMAIN indexesListDetails :
       Fulfil(<<"settings", p, 0>>, p, getIndexSettings(indexesListDetails[p].id))
  /\ UNCHANGED <<pc, locals, file, error, writeCalls, proceed, paths>>

\* settingsList is resolved: Promise.all over getIndexAssignedContentTypes(item.id)
RetrieveAssigned ==
  /\ pc = "settings"
  /\ Settled(Len(indexesListDetails))
  /\ settingsList' = Resolved(Len(indexesListDetails))
  /\ pc' = "assigned"
  /\ status' = status @@ Fresh({<<"assigned", p, 0>> : p \in DOMAIN indexesListDetails})
  /\ values' = <<>>
  /\ UNCHANGED <<indexesListDetails, assignedContentTypesList,
                 activeContentWebhooks, archivedContentWebhooks,
                 activeContentWebhooksList, archivedContentWebhooksList,
                 replicas, replicaIndexesList, replicaIndexSettingsList, i,
                 finalIndexesListDetails, file, error, writeCalls, proceed, paths>>

AssignedResponse ==
  /\ \E p \in DOMAIN indexesListDetails :
       \E types \in AssignedContentTypesOf(indexesListDetails[p].id) :
         Fulfil(<<"assigned", p, 0>>, p, types)
  /\ UNCHANGED <<pc, locals, file, error, writeCalls, proceed, paths>>

\* Lookups of one Promise.all for both relations: no barrier between them
LookupsBothStages(stage, refs) ==
  { <<s, p, 0>> : s \in {"active", "archived"}, p \in { q \in DOMAIN refs : Truthy(refs[q]) } }

\* Lookups issued one after the other: only the first non-null element
LookupsFirstOnly(stage, refs) ==
  { <<stage, p, 0>> : p \in { q \in DOMAIN refs :
      Truthy(refs[q]) /\ \A r \in 1..(q - 1) : ~Truthy(refs[r]) } }

\* Lookups without the null test: a request for every element
LookupsAll(stage, refs) == { <<stage, p, 0>> : p \in DOMAIN refs }

\* activeContentWebhooks.map(item => item ? hub.related.webhooks.get(item) : null)
Lookups(stage, refs) == { <<stage, p, 0>> : p \in { q \in DOMAIN refs : Truthy(refs[q]) } }

\* the slots of the elements that are null and not promises
NullSlots(refs) == [p \in { q \in DOMAIN refs : ~Truthy(refs[q]) } |-> <<>>]

\* assignedContentTypesList is resolved and every first assignment has both
\* links: record the webhook references, then Promise.all over the active ones
ExtractWebhookRefs ==
  /\ pc = "assigned"
  /\ Settled(Len(indexesListDetails))
  /\ LET list == Resolved(Len(indexesListDetails)) IN
       /\ ~MissingLink(list)
       /\ assignedContentTypesList' = list
       /\ activeContentWebhooks' = [p \in DOMAIN list |-> WebhookRef(list[p], ACTIVE)]
       /\ archivedContentWebhooks' = [p \in DOMAIN list |-> WebhookRef(list[p], ARCHIVED)]
  /\ pc' = "active"
  /\ status' = status @@ Fresh(Lookups("active", activeContentWebhooks'))
  /\ values' = NullSlots(activeContentWebhooks')
  /\ UNCHANGED <<indexesListDetails, settingsList,
                 activeContentWebhooksList, archivedContentWebhooksList,
                 replicas, replicaIndexesList, replicaIndexSettingsList, i,
                 finalIndexesListDetails, file, error, writeCalls, proceed, paths>>

\* type._links[...] is undefined: reading .href throws a TypeError
MissingLinkThrows ==
  /\ pc = "assigned"
  /\ Settled(Len(indexesListDetails))
  /\ MissingLink(Resolved(Len(indexesListDetails)))
  /\ assignedContentTypesList' = Resolved(Len(indexesListDetails))
  /\ pc' = "failed"
  /\ error' = <<"TypeError", 0, 0>>
  /\ UNCHANGED <<status, values, indexesListDetails, settingsList,
                 activeContentWebhooks, archivedContentWebhooks,
                 activeContentWebhooksList, archivedContentWebhooksList,
                 replicas, replicaIndexesList, replicaIndexSettingsList, i,
                 finalIndexesListDetails, file, writeCalls, proceed, paths>>

ActiveResponse ==
  /\ \E p \in DOMAIN activeContentWebhooks :
       Fulfil(<<"active", p, 0>>, p, <<getWebhook(activeContentWebhooks[p])>>)
  /\ UNCHANGED <<pc, locals, file, error, writeCalls, proceed, paths>>

\* activeContentWebhooksList is resolved: Promise.all over the archived references
RetrieveArchived ==
  /\ pc = "active"
  /\ Settled(Len(indexesListDetails))
  /\ activeContentWebhooksList' = Resolved(Len(indexesListDetails))
  /\ pc' = "archived"
  /\ status' = status @@ Fresh(Lookups("archived", archivedContentWebhooks))
  /\ values' = NullSlots(archivedContentWebhooks)
  /\ UNCHANGED <<indexesListDetails, settingsList, assignedContentTypesList,
                 activeContentWebhooks, archivedContentWebhooks,
                 archivedContentWebhooksList,
                 replicas, replicaIndexesList, replicaIndexSettingsList, i,
                 finalIndexesListDetails, file, error, writeCalls, proceed, paths>>

ArchivedResponse ==
  /\ \E p \in DOMAIN archivedContentWebhooks :
       Fulfil(<<"archived", p, 0>>, p, <<getWebhook(archivedContentWebhooks[p])>>)
  /\ UNCHANGED <<pc, locals, file, error, writeCalls, proceed, paths>>

(***************************************************************************)
(* Replica expansion: a loop of by-name lookups over every index, then a   *)
(* loop of settings fetches over every index.                              *)
(***************************************************************************)

\* archivedContentWebhooksList is resolved: extract the replicas lists
ExtractReplicas ==
  /\ pc = "archived"
  /\ Settled(Len(indexesListDetails))
  /\ archivedContentWebhooksList' = Resolved(Len(indexesListDetails))
  /\ replicas' = [p \in DOMAIN settingsList |-> ReplicasOf(settingsList[p])]
  /\ replicaIndexesList' = <<>>
  /\ i' = 1
  /\ pc' = "byNameLoop"
  /\ values' = <<>>
  /\ UNCHANGED <<status, indexesListDetails, settingsList, assignedContentTypesList,
                 activeContentWebhooks, archivedContentWebhooks,
                 activeContentWebhooksList, replicaIndexSettingsList,
                 finalIndexesListDetails, file, error, writeCalls, proceed, paths>>

\* ByNameBatch with the expansion left out for an index that has a parentId
ByNameBatchTopLevelOnly(n) ==
  IF IsReplica(indexesListDetails[n]) THEN {}
  ELSE { <<"byName", n, j>> : j \in DOMAIN replicas[n] }

\* ByNameBatch without the throttle: the lookups of every index at once
ByNameBatchAll(n) ==
  UNION { { <<"byName", m, j>> : j \in DOMAIN replicas[m] } : m \in DOMAIN replicas }

\* The by-name lookups one iteration of the first loop issues.
ByNameBatch(n) == { <<"byName", n, j>> : j \in DOMAIN replicas[n] }

\* replicas[i].length > 0: Promise.all over getIndexByName(item)
ByNameIssue ==
  /\ pc = "byNameLoop"
  /\ i <= Len(replicas)
  /\ Len(replicas[i]) > 0
  /\ status' = status @@ Fresh(ByNameBatch(i))
  /\ values' = <<>>
  /\ pc' = "byName"
  /\ UNCHANGED <<locals, file, error, writeCalls, proceed, paths>>

\* replicas[i] is empty: replicaIndexesList.push([])
ByNameSkip ==
  /\ pc = "byNameLoop"
  /\ i <= Len(replicas)
  /\ Len(replicas[i]) = 0
  /\ replicaIndexesList' = Append(replicaIndexesList, <<>>)
  /\ i' = i + 1
  /\ UNCHANGED <<pc, status, values, indexesListDetails, settingsList,
                 assignedContentTypesList, activeContentWebhooks,
                 archivedContentWebhooks, activeContentWebhooksList,
                 archivedContentWebhooksList, replicas, replicaIndexSettingsList,
                 finalIndexesListDetails, file, error, writeCalls, proceed, paths>>

ByNameResponse ==
  /\ \E k \in DOMAIN status :
       /\ k[1] = "byName"
       /\ Fulfil(k, k[3], getIndexByName(replicas[k[2]][k[3]]))
  /\ UNCHANGED <<pc, locals, file, error, writeCalls, proceed, paths>>

\* replicasDetailsList is resolved: replicaIndexesList.push(replicasDetailsList)
ByNamePush ==
  /\ pc = "byName"
  /\ Settled(Len(replicas[i]))
  /\ replicaIndexesList' = Append(replicaIndexesList, Resolved(Len(replicas[i])))
  /\ i' = i + 1
  /\ pc' = "byNameLoop"
  /\ values' = <<>>
  /\ UNCHANGED <<status, indexesListDetails, settingsList,
                 assignedContentTypesList, activeContentWebhooks,
                 archivedContentWebhooks, activeContentWebhooksList,
                 archivedContentWebhooksList, replicas, replicaIndexSettingsList,
                 finalIndexesListDetails, file, error, writeCalls, proceed, paths>>

\* the first loop is over: start the second one
ByNameDone ==
  /\ pc = "byNameLoop"
  /\ i > Len(replicas)
  /\ replicaIndexSettingsList' = <<>>
  /\ i' = 1
  /\ pc' = "replicaSettingsLoop"
  /\ UNCHANGED <<status, values, indexesListDetails, settingsList,
                 assignedContentTypesList, activeContentWebhooks,
                 archivedContentWebhooks, activeContentWebhooksList,
                 archivedContentWebhooksList, replicas, replicaIndexesList,
                 finalIndexesListDetails, file, error, writeCalls, proceed, paths>>

\* ReplicaSettingsBatch without the await in the loop: every index at once
ReplicaSettingsBatchAll(n) ==
  UNION { { <<"replicaSettings", m, j>> : j \in DOMAIN replicaIndexesList[m] } :
          m \in DOMAIN replicaIndexesList }

\* The settings fetches one iteration of the second loop issues.
ReplicaSettingsBatch(n) == { <<"replicaSettings", n, j>> : j \in DOMAIN replicaIndexesList[n] }

\* replicaIndexesList[i].length > 0: Promise.all over getIndexSettings(item.id)
ReplicaSettingsIssue ==
  /\ pc = "replicaSettingsLoop"
  /\ i <= Len(replicaIndexesList)
  /\ Len(replicaIndexesList[i]) > 0
  /\ status' = status @@ Fresh(ReplicaSettingsBatch(i))
  /\ values' = <<>>
  /\ pc' = "replicaSettings"
  /\ UNCHANGED <<locals, file, error, writeCalls, proceed, paths>>

\* replicaIndexesList[i] is empty: replicaIndexSettingsList.push([])
ReplicaSettingsSkip ==
  /\ pc = "replicaSettingsLoop"
  /\ i <= Len(replicaIndexesList)
  /\ Len(replicaIndexesList[i]) = 0
  /\ replicaIndexSettingsList' = Append(replicaIndexSettingsList, <<>>)
  /\ i' = i + 1
  /\ UNCHANGED <<pc, status, values, indexesListDetails, settingsList,
                 assignedContentTypesList, activeContentWebhooks,
                 archivedContentWebhooks, activeContentWebhooksList,
                 archivedContentWebhooksList, replicas, replicaIndexesList,
                 finalIndexesListDetails, file, error, writeCalls, proceed, paths>>

ReplicaSettingsResponse ==
  /\ \E k \in DOMAIN status :
       /\ k[1] = "replicaSettings"
       /\ Fulfil(k, k[3], getIndexSettings(replicaIndexesList[k[2]][k[3]].id))
  /\ UNCHANGED <<pc, locals, file, error, writeCalls, proceed, paths>>

\* replicasSettingsList is resolved: replicaIndexSettingsList.push(replicasSettingsList)
ReplicaSettingsPush ==
  /\ pc = "replicaSettings"
  /\ Settled(Len(replicaIndexesList[i]))
  /\ replicaIndexSettingsList' =
       Append(replicaIndexSettingsList, Resolved(Len(replicaIndexesList[i])))
  /\ i' = i + 1
  /\ pc' = "replicaSettingsLoop"
  /\ values' = <<>>
  /\ UNCHANGED <<status, indexesListDetails, settingsList,
                 assignedContentTypesList, activeContentWebhooks,
                 archivedContentWebhooks, activeContentWebhooksList,
                 archivedContentWebhooksList, replicas, replicaIndexesList,
                 finalIndexesListDetails, file, error, writeCalls, proceed, paths>>

(***************************************************************************)
(* The target path of processIndexes.  A path is the sequence of its       *)
(* parts between separators, so a trailing separator is an empty last part.*)
(***************************************************************************)

\* client.hubs.get(argv.hubId)
Hub == [id |-> "h1", name |-> "Acme"]

\* argv.dir, with and without a trailing path.sep
OutputDirs == { <<"out">>, <<"out", "">> }

\* if (outputDir.substr(-1) === path.sep) dir = dir.slice(0, -1)
Dir(outputDir) ==
  IF outputDir[Len(outputDir)] = "" THEN SubSeq(outputDir, 1, Len(outputDir) - 1)
                                    ELSE outputDir

\* dir + path.sep + path.basename(`indexes-${id}-${name}`, '.json') + '.json';
\* the basename of a text without separator or extension is the text
UniqueFilename(outputDir, hub) ==
  Dir(outputDir) \o << "indexes-" \o hub.id \o "-" \o hub.name \o ".json" >>

(***************************************************************************)
(* Assembly of the IndexEntry records.                                     *)
(***************************************************************************)

\* replicaIndexSettingsList[i].map((x, j) => ({id, name, settings}))
ReplicasSettings(n) ==
  [ j \in DOMAIN replicaIndexSettingsList[n] |->
      [ id       |-> replicaIndexesList[n][j].id,
        name     |-> replicas[n][j],
        settings |-> replicaIndexSettingsList[n][j] ] ]

\* IndexDetails with the length test lost: the field is always attached
IndexDetailsAlways(n) ==
  [assignedContentTypes |-> assignedContentTypesList[n]] @@ indexesListDetails[n]

\* indexEntry.indexDetails: item, with assignedContentTypes added if there are any
IndexDetails(n) ==
  IF Len(assignedContentTypesList[n]) > 0
    THEN [assignedContentTypes |-> assignedContentTypesList[n]] @@ indexesListDetails[n]
    ELSE indexesListDetails[n]

IndexEntry(n) ==
  [ id                     |-> indexesListDetails[n].id,
    indexDetails           |-> IndexDetails(n),
    settings               |-> settingsList[n],
    replicasSettings       |-> ReplicasSettings(n),
    activeContentWebhook   |-> PayloadOf(activeContentWebhooksList[n]),
    archivedContentWebhook |-> PayloadOf(archivedContentWebhooksList[n]) ]

\* TopLevel with unshift for push: the entries come out in reverse order
TopLevelReversed ==
  LET kept == SelectSeq([n \in DOMAIN indexesListDetails |-> n],
                        LAMBDA n : ~IsReplica(indexesListDetails[n]))
  IN  [m \in DOMAIN kept |-> kept[Len(kept) + 1 - m]]

\* The positions of the listing that get an entry, in order.
TopLevel ==
  SelectSeq([n \in DOMAIN indexesListDetails |-> n],
            LAMBDA n : ~IsReplica(indexesListDetails[n]))

\* Assemble with the write called straight away, without the gate
AssembleSkipsGate ==
  /\ pc = "replicaSettingsLoop"
  /\ i > Len(replicaIndexesList)
  /\ finalIndexesListDetails' = [m \in DOMAIN TopLevel |-> IndexEntry(TopLevel[m])]
  /\ indexesListDetails' =
       [ n \in DOMAIN indexesListDetails |->
           IF IsReplica(indexesListDetails[n]) THEN indexesListDetails[n]
                                               ELSE IndexDetails(n) ]
  /\ pc' = "write"
  /\ \E outputDir \in OutputDirs :
       paths' = [paths EXCEPT !.prompted = UniqueFilename(outputDir, Hub)]
  /\ UNCHANGED <<status, values, settingsList, assignedContentTypesList,
                 activeContentWebhooks, archivedContentWebhooks,
                 activeContentWebhooksList, archivedContentWebhooksList,
                 replicas, replicaIndexesList, replicaIndexSettingsList, i,
                 file, error, writeCalls, proceed>>

\* the second loop is over: build the entries and call processIndexes, which
\* asks promptToExportSettings(uniqueFilename)
Assemble ==
  /\ pc = "replicaSettingsLoop"
  /\ i > Len(replicaIndexesList)
  /\ finalIndexesListDetails' = [m \in DOMAIN TopLevel |-> IndexEntry(TopLevel[m])]
  /\ indexesListDetails' =
       [ n \in DOMAIN indexesListDetails |->
           IF IsReplica(indexesListDetails[n]) THEN indexesListDetails[n]
                                               ELSE IndexDetails(n) ]
  /\ pc' = "prompt"
  /\ status' = status @@ Fresh({<<"prompt", 0, 0>>})
  /\ UNCHANGED <<values, settingsList, assignedContentTypesList,
                 activeContentWebhooks, archivedContentWebhooks,
                 activeContentWebhooksList, archivedContentWebhooksList,
                 replicas, replicaIndexesList, replicaIndexSettingsList, i,
                 file, error, writeCalls, proceed>>
  /\ \E outputDir \in OutputDirs :
       paths' = [paths EXCEPT !.prompted = UniqueFilename(outputDir, Hub)]

\* NoIndexes ending the run with the notice, the gate never asked
NoIndexesNothingExported ==
  /\ pc = "list"
  /\ status[<<"list", 0, 0>>] = "ok"
  /\ Len(indexesListDetails) = 0
  /\ pc' = "nothingExported"
  /\ UNCHANGED <<status, values, locals, file, error, writeCalls, proceed, paths>>

\* NoIndexes with the processIndexes call inside the if: the handler just returns
NoIndexesReturns ==
  /\ pc = "list"
  /\ status[<<"list", 0, 0>>] = "ok"
  /\ Len(indexesListDetails) = 0
  /\ pc' = "returned"
  /\ UNCHANGED <<status, values, locals, file, error, writeCalls, proceed, paths>>

\* the listing is empty: processIndexes is called with no entry
NoIndexes ==
  /\ pc = "list"
  /\ status[<<"list", 0, 0>>] = "ok"
  /\ Len(indexesListDetails) = 0
  /\ pc' = "prompt"
  /\ status' = status @@ Fresh({<<"prompt", 0, 0>>})
  /\ \E outputDir \in OutputDirs :
       paths' = [paths EXCEPT !.prompted = UniqueFilename(outputDir, Hub)]
  /\ UNCHANGED <<values, locals, file, error, writeCalls, proceed>>

(***************************************************************************)
(* processIndexes: the overwrite gate and the write.                       *)
(***************************************************************************)

\* What promptToExportSettings may find at uniqueFilename.
Found == { [state |-> "absent", doc |-> <<>>], [state |-> "original", doc |-> <<>>] }

\* promptToExportSettings(uniqueFilename): true when no file is there,
\* otherwise what the user answers
PromptAnswers(found) == IF found.state = "absent" THEN {TRUE} ELSE BOOLEAN

\* nothingExportedExit(): the run ends with the "nothing exported" notice
nothingExportedExit == "nothingExported"

\* writeJsonToFile(uniqueFilename, indexes): the file holds the document
writeJsonToFile(indexes) == [state |-> "exported", doc |-> indexes]

\* promptToExportSettings resolves to true
PromptApproved ==
  /\ pc = "prompt"
  /\ \E found \in Found : TRUE \in PromptAnswers(found) /\ file' = found
  /\ status' = [status EXCEPT ![<<"prompt", 0, 0>>] = "ok"]
  /\ proceed' = "yes"
  /\ pc' = "write"
  /\ UNCHANGED <<values, locals, error, writeCalls, paths>>

\* PromptDeclined without the return: the handler goes on to the write
PromptDeclinedFallsThrough ==
  /\ pc = "prompt"
  /\ \E found \in Found : FALSE \in PromptAnswers(found) /\ file' = found
  /\ status' = [status EXCEPT ![<<"prompt", 0, 0>>] = "ok"]
  /\ proceed' = "no"
  /\ pc' = "write"
  /\ UNCHANGED <<values, locals, error, writeCalls, paths>>

\* promptToExportSettings resolves to false: return nothingExportedExit()
PromptDeclined ==
  /\ pc = "prompt"
  /\ \E found \in Found : FALSE \in PromptAnswers(found) /\ file' = found
  /\ status' = [status EXCEPT ![<<"prompt", 0, 0>>] = "ok"]
  /\ proceed' = "no"
  /\ pc' = nothingExportedExit
  /\ UNCHANGED <<values, locals, error, writeCalls, paths>>

\* writeJsonToFile(uniqueFilename, indexes) and the success message
WriteFile ==
  /\ pc = "write"
  /\ writeCalls' = writeCalls + 1
  /\ file' = writeJsonToFile(finalIndexesListDetails)
  /\ paths' = [paths EXCEPT !.written = paths.prompted]
  /\ pc' = "exported"
  /\ UNCHANGED <<status, values, locals, error, proceed>>

\* writeJsonToFile throws and leaves the file as it was
WriteThrows ==
  /\ pc = "write"
  /\ writeCalls' = writeCalls + 1
  /\ pc' = "failed"
  /\ error' = <<"write", 0, 0>>
  /\ paths' = [paths EXCEPT !.written = paths.prompted]
  /\ UNCHANGED <<status, values, locals, file, proceed>>

(***************************************************************************)
(* A rejected fetch: the Promise.all being awaited rejects, the await      *)
(* throws and the handler rejects.  Requests still in flight stay so.      *)
(***************************************************************************)

\* Awaited true for every request: each rejection is taken as the failure
AwaitedAlways(k) == TRUE

\* Awaited when the rejection is swallowed: the handler never sees it
AwaitedNever(k) == FALSE

\* the handler is suspended on the Promise.all that request k belongs to
Awaited(k) == pc = k[1]

Reject(k) ==
  /\ status[k] = "pending"
  /\ k[1] # "prompt"
  /\ status' = [status EXCEPT ![k] = "rejected"]
  /\ IF Awaited(k)
       THEN pc' = "failed" /\ error' = k
       ELSE UNCHANGED <<pc, error>>
  /\ UNCHANGED <<values, locals, file, writeCalls, proceed, paths>>

FetchRejects == \E k \in DOMAIN status : Reject(k)

Next ==
  \/ Start
  \/ ListResponse
  \/ RetrieveSettings
  \/ NoIndexes
  \/ SettingsResponse
  \/ RetrieveAssigned
  \/ AssignedResponse
  \/ ExtractWebhookRefs
  \/ MissingLinkThrows
  \/ ActiveResponse
  \/ RetrieveArchived
  \/ ArchivedResponse
  \/ ExtractReplicas
  \/ ByNameIssue
  \/ ByNameSkip
  \/ ByNameResponse
  \/ ByNamePush
  \/ ByNameDone
  \/ ReplicaSettingsIssue
  \/ ReplicaSettingsSkip
  \/ ReplicaSettingsResponse
  \/ ReplicaSettingsPush
  \/ Assemble
  \/ PromptApproved
  \/ PromptDeclined
  \/ WriteFile
  \/ WriteThrows
  \/ FetchRejects

Spec == Init /\ [][Next]_vars

\* Every step of the handler and of its requests eventually happens.
FairSpec == Spec /\ WF_vars(Next)

(***************************************************************************)
(* Properties.                                                             *)
(***************************************************************************)

Exported == file.state = "exported"

\* The listing position the m-th entry of the document was built from.
PositionOf(m) == TopLevel[m]

RECURSIVE IdsWithoutParent(_)
\* The ids of the listing entries that carry no parentId, in listing order.
IdsWithoutParent(list) ==
  IF list = <<>> THEN <<>>
  ELSE (IF "parentId" \in DOMAIN Head(list) THEN <<>> ELSE <<Head(list).id>>)
         \o IdsWithoutParent(Tail(list))

\* C1: the ids of the entries of a written document are the ids of the
\* listing entries without parentId, one entry each, in listing order.
C1_EntriesFollowInputOrder ==
  Exported =>
    [m \in DOMAIN file.doc |-> file.doc[m].id] = IdsWithoutParent(indexesListDetails)

\* a document with two entries, written for a listing that names i3 before i1
C1_Witness ==
  /\ Exported
  /\ Len(file.doc) = 2
  /\ file.doc[1].id = "i3"
  /\ file.doc[2].id = "i1"

\* The listing entries that carry parentId.
ListedReplicas == { d \in Range(indexesListDetails) : "parentId" \in DOMAIN d }

\* C2 as stated: no entry of a written document is an index with parentId,
\* and a listed index with parentId is nested only in the entry whose id is
\* that parentId.
C2_ReplicaOnlyUnderParent ==
  Exported =>
    \A m \in DOMAIN file.doc :
      /\ "parentId" \notin DOMAIN file.doc[m].indexDetails
      /\ \A r \in Range(file.doc[m].replicasSettings) :
           \A d \in ListedReplicas : d.id = r.id => d.parentId = file.doc[m].id

\* C2 amended: no entry of a written document is built from a listing entry
\* with parentId (also when another index names it as a replica), and an
\* index is nested in an entry only under a name of that entry's
\* settings.replicas that the by-name lookup resolves to it.
C2_ReplicaNeverTopLevel ==
  Exported =>
    \A m \in DOMAIN file.doc :
      /\ "parentId" \notin DOMAIN file.doc[m].indexDetails
      /\ \A d \in ListedReplicas : file.doc[m].id # d.id
      /\ \A r \in Range(file.doc[m].replicasSettings) :
           /\ r.name \in Range(ReplicasOf(file.doc[m].settings))
           /\ getIndexByName(r.name).id = r.id

\* a written document for a listing that holds a replica which an entry nests
C2_Witness ==
  /\ Exported
  /\ \E d \in ListedReplicas :
       \E m \in DOMAIN file.doc :
         \E r \in Range(file.doc[m].replicasSettings) : r.id = d.id

\* C3: in a written document, replicasSettings of an entry lines up with the
\* replicas list of the entry's settings: same length, j-th name, the id the
\* by-name lookup of that name returns, the settings fetched for that id.
C3_ReplicasSettingsMirrorReplicas ==
  Exported =>
    \A m \in DOMAIN file.doc :
      LET names == ReplicasOf(file.doc[m].settings)
          rs    == file.doc[m].replicasSettings
      IN  /\ Len(rs) = Len(names)
          /\ \A j \in DOMAIN names :
               /\ rs[j].name = names[j]
               /\ rs[j].id = getIndexByName(names[j]).id
               /\ rs[j].settings = getIndexSettings(rs[j].id)

\* an entry with two replicas, and one whose settings have no replicas field
C3_Witness ==
  /\ Exported
  /\ \E m \in DOMAIN file.doc : Len(file.doc[m].replicasSettings) = 2
  /\ \E m \in DOMAIN file.doc :
       /\ "replicas" \notin DOMAIN file.doc[m].settings
       /\ file.doc[m].replicasSettings = <<>>

\* C4: an entry of an index without assignment has both webhook fields, both
\* null, and no assignedContentTypes in indexDetails; an entry of an index
\* with an assignment has assignedContentTypes.
C4_NoAssignmentNullWebhooks ==
  Exported =>
    \A m \in DOMAIN file.doc :
      LET types == assignedContentTypesList[PositionOf(m)]
          entry == file.doc[m]
      IN  /\ {"activeContentWebhook", "archivedContentWebhook"} \subseteq DOMAIN entry
          /\ Len(types) = 0 =>
               /\ entry.activeContentWebhook = Null
               /\ entry.archivedContentWebhook = Null
               /\ "assignedContentTypes" \notin DOMAIN entry.indexDetails
          /\ Len(types) > 0 => "assignedContentTypes" \in DOMAIN entry.indexDetails

\* a document with an entry of either kind
C4_Witness ==
  /\ Exported
  /\ \E m \in DOMAIN file.doc : Len(assignedContentTypesList[PositionOf(m)]) = 0
  /\ \E m \in DOMAIN file.doc : Len(assignedContentTypesList[PositionOf(m)]) > 0

Rejected == { k \in DOMAIN status : status[k] = "rejected" }

Pending == { k \in DOMAIN status : status[k] = "pending" }

\* C5 as stated: when the first assignment of an index lacks a webhook link
\* and no fetch was rejected, the run does not fail (and the field is null).
C5_MissingLinkStillCompletes ==
  (/\ Len(assignedContentTypesList) > 0
   /\ MissingLink(assignedContentTypesList)
   /\ Rejected = {})
    => pc # "failed"

\* C6: once a fetch is rejected the handler has rejected, the overwrite gate
\* was never asked, the writer was never called and no file is written.
C6_AllOrNothing ==
  Rejected # {} =>
    /\ pc = "failed"
    /\ <<"prompt", 0, 0>> \notin DOMAIN status
    /\ proceed = "unasked"
    /\ writeCalls = 0
    /\ file.state # "exported"

\* the last replica settings fetch is rejected after a sibling has answered
C6_Witness ==
  /\ \E k \in Rejected : k[1] = "replicaSettings"
  /\ \E k \in DOMAIN status : k[1] = "replicaSettings" /\ status[k] = "ok"

\* C7: when the gate answers false the writer is not called, the file is as
\* it was, and the run ends as "nothing exported" with no error.
C7_DeclinedWritesNothing ==
  proceed = "no" =>
    /\ pc = nothingExportedExit
    /\ writeCalls = 0
    /\ file = [state |-> "original", doc |-> <<>>]
    /\ error = NoError

\* the gate declines a document that has entries
C7_Witness ==
  /\ proceed = "no"
  /\ Len(finalIndexesListDetails) > 0

FileWritten == pc = "exported" /\ file.state = "exported" /\ error = NoError

NothingExported == pc = nothingExportedExit /\ file.state # "exported" /\ error = NoError

Failed == pc = "failed" /\ file.state # "exported" /\ error # NoError

\* C8: every run ends for good in one of: file written, nothing exported,
\* failed with no file written; and no run has failed with the file written.
C8_Terminates ==
  /\ <>[](FileWritten \/ NothingExported \/ Failed)
  /\ [](pc = "failed" => file.state # "exported")

\* a run has failed on a rejected fetch and the requests that were still in
\* flight have all been answered since
C8_Witness ==
  /\ Failed
  /\ Pending = {}
  /\ Cardinality(Rejected) = 1
  /\ \E k \in DOMAIN status : k[1] = error[1] /\ status[k] = "ok"

\* the listing i1, i2 where i1 has one assignment with both links
Scenario ==
  /\ Len(indexesListDetails) = 2
  /\ indexesListDetails[1].id = "i1"
  /\ indexesListDetails[2].id = "i2"
  /\ Len(assignedContentTypesList) = 2
  /\ Len(assignedContentTypesList[1]) = 1

\* C9: the webhook fields of an entry with an assignment are the payloads of
\* the webhooks named by the last segment of the links of that index's own
\* first assignment; in the scenario the document is the one entry for i1
\* with the replica i2 nested and both payloads.
C9_WebhookPayloadsOfOwnLinks ==
  Exported =>
    /\ \A m \in DOMAIN file.doc :
         LET types == assignedContentTypesList[PositionOf(m)] IN
           Len(types) > 0 =>
             /\ file.doc[m].activeContentWebhook =
                  getWebhook(LastSegment(types[1]._links[ACTIVE].href)).customPayload.value
             /\ file.doc[m].archivedContentWebhook =
                  getWebhook(LastSegment(types[1]._links[ARCHIVED].href)).customPayload.value
    /\ Scenario =>
         /\ Len(file.doc) = 1
         /\ file.doc[1].id = "i1"
         /\ file.doc[1].replicasSettings =
              << [id |-> "i2", name |-> "MainReplica", settings |-> [of |-> "i2"]] >>
         /\ file.doc[1].activeContentWebhook = "payload:wa-i1-1"
         /\ file.doc[1].archivedContentWebhook = "payload:wr-i1-1"

\* the scenario's document is written
C9_Witness == Exported /\ Scenario

ReplicaStages == {"byName", "replicaSettings"}

\* the request was issued and has been answered
Completed(k) == k \in DOMAIN status /\ status[k] = "ok"

\* C10 as stated: a replica-related request of position n + 1 is issued only
\* when every by-name lookup and every replica settings fetch of position n
\* has completed.
C10_IndexFullyBeforeNext ==
  \A k \in DOMAIN status :
    (k[1] \in ReplicaStages /\ k[2] > 1) =>
      \A j \in DOMAIN replicas[k[2] - 1] :
        \A stage \in ReplicaStages : Completed(<<stage, k[2] - 1, j>>)

\* C10 amended: a by-name lookup of position n + 1 is issued only when every
\* by-name lookup of position n has completed, a replica settings fetch of
\* position n + 1 only when every replica settings fetch of position n has
\* completed, and a replica settings fetch only when the by-name lookups of
\* every position have completed.
C10_OneIndexAtATimePerLoop ==
  \A k \in DOMAIN status :
    /\ (k[1] \in ReplicaStages /\ k[2] > 1) =>
         \A j \in DOMAIN replicas[k[2] - 1] : Completed(<<k[1], k[2] - 1, j>>)
    /\ k[1] = "replicaSettings" =>
         \A n \in DOMAIN replicas :
           \A j \in DOMAIN replicas[n] : Completed(<<"byName", n, j>>)

\* both positions have replicas and the second loop has reached the second
C10_Witness ==
  /\ Len(replicas) = 2
  /\ Len(replicas[1]) > 0
  /\ <<"replicaSettings", 2, 1>> \in DOMAIN status

(***************************************************************************)
(* C11 - C20                                                               *)
(***************************************************************************)

\* the replica-related requests in flight
ReplicaInFlight == { k \in Pending : k[1] \in ReplicaStages }

\* the length of the longest replicas list of any one index
LongestReplicas ==
  IF replicas = <<>> THEN 0
  ELSE CHOOSE l \in { Len(replicas[n]) : n \in DOMAIN replicas } :
         \A n \in DOMAIN replicas : Len(replicas[n]) <= l

\* C11: while no fetch has rejected, the replica-related requests in flight
\* (by-name lookups and replica settings fetches) all belong to one input
\* index, so there are never more of them than the longest replicas list of
\* any one index has names.
C11_ReplicaRequestsOfOneIndex ==
  Rejected = {} =>
    /\ \A k1, k2 \in ReplicaInFlight : k1[2] = k2[2]
    /\ Cardinality(ReplicaInFlight) <= LongestReplicas

\* two requests of the second index in flight after the first index's
\* requests were answered
C11_Witness ==
  /\ Rejected = {}
  /\ Cardinality(ReplicaInFlight) = 2
  /\ \E k \in ReplicaInFlight : k[2] = 2
  /\ \E k \in DOMAIN status : k[1] \in ReplicaStages /\ k[2] = 1 /\ status[k] = "ok"

WebhookStages == {"active", "archived"}

RelOf(stage) == IF stage = "active" THEN ACTIVE ELSE ARCHIVED

\* index p has a first assignment whose link of this relation ends in a
\* non-empty webhook id
HasRef(p, rel) ==
  /\ p \in DOMAIN assignedContentTypesList
  /\ Len(assignedContentTypesList[p]) > 0
  /\ rel \in DOMAIN assignedContentTypesList[p][1]._links
  /\ LastSegment(assignedContentTypesList[p][1]._links[rel].href) # ""

\* the positions a webhook lookup of the stage was issued for
LookedUp(stage) == { k[2] : k \in { h \in DOMAIN status : h[1] = stage } }

\* C12: a webhook lookup is issued only for an index that has an assignment
\* with a non-empty reference id, never for one without assignment; once a
\* lookup stage has started its lookups are those of exactly these indexes,
\* and the null marker of every other index stays null in the resolved list
\* and in the written entry.
C12_LookupsOnlyForAssignedIndexes ==
  /\ \A k \in DOMAIN status :
       k[1] \in WebhookStages =>
         Len(assignedContentTypesList[k[2]]) > 0 /\ HasRef(k[2], RelOf(k[1]))
  /\ activeContentWebhooks # <<>> =>
       LookedUp("active") = { p \in DOMAIN indexesListDetails : HasRef(p, ACTIVE) }
  /\ activeContentWebhooksList # <<>> =>
       /\ LookedUp("archived") = { p \in DOMAIN indexesListDetails : HasRef(p, ARCHIVED) }
       /\ \A p \in DOMAIN indexesListDetails :
            ~HasRef(p, ACTIVE) => activeContentWebhooksList[p] = <<>>
  /\ archivedContentWebhooksList # <<>> =>
       \A p \in DOMAIN indexesListDetails :
         ~HasRef(p, ARCHIVED) => archivedContentWebhooksList[p] = <<>>
  /\ Exported =>
       \A m \in DOMAIN file.doc :
         /\ ~HasRef(PositionOf(m), ACTIVE) => file.doc[m].activeContentWebhook = Null
         /\ ~HasRef(PositionOf(m), ARCHIVED) => file.doc[m].archivedContentWebhook = Null

\* a written document of two indexes, lookups issued for one of them only
C12_Witness ==
  /\ Exported
  /\ Len(file.doc) = 2
  /\ \E p \in DOMAIN indexesListDetails : Len(assignedContentTypesList[p]) = 0
  /\ Cardinality(LookedUp("active")) = 1
  /\ Cardinality(LookedUp("archived")) = 1

\* the positions of the indexes with more than one assignment
SeveralAssignments ==
  { p \in DOMAIN assignedContentTypesList : Len(assignedContentTypesList[p]) > 1 }

\* the webhook ids the links of the assignments after the first name
LaterRefs(p) ==
  { LastSegment(assignedContentTypesList[p][a]._links[rel].href) :
      a \in 2..Len(assignedContentTypesList[p]), rel \in {ACTIVE, ARCHIVED} }

\* for an index with several assignments the references and the resolved
\* webhooks are those of the first assignment's links, none of a later one
FirstAssignmentOnly(p) ==
  LET first == assignedContentTypesList[p][1] IN
    /\ activeContentWebhooks # <<>> =>
         /\ activeContentWebhooks[p] = LastSegment(first._links[ACTIVE].href)
         /\ archivedContentWebhooks[p] = LastSegment(first._links[ARCHIVED].href)
    /\ activeContentWebhooksList # <<>> =>
         /\ activeContentWebhooksList[p] = <<getWebhook(activeContentWebhooks[p])>>
         /\ activeContentWebhooksList[p][1].id \notin LaterRefs(p)
    /\ archivedContentWebhooksList # <<>> =>
         /\ archivedContentWebhooksList[p] = <<getWebhook(archivedContentWebhooks[p])>>
         /\ archivedContentWebhooksList[p][1].id \notin LaterRefs(p)

\* C13 as stated: for an index with more than one assignment the references
\* and lookups are those of the first assignment, and the exported entry
\* reflects only the first assignment.
C13_EntryReflectsFirstOnly ==
  /\ \A p \in SeveralAssignments :
       ~MissingLink(assignedContentTypesList) => FirstAssignmentOnly(p)
  /\ Exported =>
       \A m \in DOMAIN file.doc :
         PositionOf(m) \in SeveralAssignments =>
           file.doc[m].indexDetails.assignedContentTypes =
             << assignedContentTypesList[PositionOf(m)][1] >>

\* C13: for an index with more than one assignment the webhook references,
\* the lookups and the two webhook fields of the entry come from the first
\* assignment's links only, while indexDetails.assignedContentTypes of the
\* entry is the whole assignment list.
C13_FirstAssignmentForWebhooksOnly ==
  /\ \A p \in SeveralAssignments :
       ~MissingLink(assignedContentTypesList) => FirstAssignmentOnly(p)
  /\ Exported =>
       \A m \in DOMAIN file.doc :
         LET types == assignedContentTypesList[PositionOf(m)] IN
           PositionOf(m) \in SeveralAssignments =>
             /\ file.doc[m].activeContentWebhook =
                  "payload:" \o LastSegment(types[1]._links[ACTIVE].href)
             /\ file.doc[m].archivedContentWebhook =
                  "payload:" \o LastSegment(types[1]._links[ARCHIVED].href)
             /\ file.doc[m].indexDetails.assignedContentTypes = types
             /\ Len(file.doc[m].indexDetails.assignedContentTypes) > 1

\* a written entry of an index with two assignments
C13_Witness ==
  /\ Exported
  /\ \E m \in DOMAIN file.doc : PositionOf(m) \in SeveralAssignments

\* the positions whose request of the stage is in flight
InFlight(stage) == { k[2] : k \in { h \in Pending : h[1] = stage } }

\* the positions with a non-null reference
NonNull(refs) == { p \in DOMAIN refs : Truthy(refs[p]) }

\* the settings and the assignment fan-out put the request of every index in
\* flight in one step
SettingsAndAssignedAllAtOnce ==
  /\ (pc = "list" /\ pc' = "settings") =>
       InFlight("settings")' = DOMAIN indexesListDetails
  /\ (pc = "settings" /\ pc' = "assigned") =>
       InFlight("assigned")' = DOMAIN indexesListDetails

\* C14 as stated: each fan-out has every index's request in flight at once;
\* for the webhooks, the active and the archived lookups of every index with
\* non-null references are outstanding at the same time.
C14_WebhookLookupsAllTogether ==
  [][ /\ SettingsAndAssignedAllAtOnce
      /\ (pc = "assigned" /\ pc' = "active") =>
           /\ InFlight("active")' = NonNull(activeContentWebhooks')
           /\ InFlight("archived")' = NonNull(archivedContentWebhooks') ]_vars

\* C14: each of the four fan-outs (settings, assignments, active webhooks,
\* archived webhooks) puts the requests of all its indexes in flight at once,
\* but the archived lookups are issued only when every active lookup has been
\* answered: an active and an archived lookup are never outstanding together.
C14_EachFanOutAllInFlight ==
  [][ /\ SettingsAndAssignedAllAtOnce
      /\ (pc = "assigned" /\ pc' = "active") =>
           /\ InFlight("active")' = NonNull(activeContentWebhooks')
           /\ LookedUp("archived")' = {}
      /\ (pc = "active" /\ pc' = "archived") =>
           /\ InFlight("archived")' = NonNull(archivedContentWebhooks')
           /\ InFlight("active")' = {}
      /\ (InFlight("active") = {} \/ InFlight("archived") = {})' ]_vars

\* the lookups of two indexes in flight at once, in either webhook stage
C14_Witness ==
  /\ Len(indexesListDetails) = 2
  /\ \/ InFlight("active") = {1, 2}
     \/ InFlight("archived") = {1, 2}
  /\ LookedUp("settings") = {1, 2}

\* C15: the failure of a run is the first rejection in time; from the first
\* rejection on the reported failure never changes, no further request is
\* issued, and a sibling's response that arrives later reaches neither the
\* handler's lists nor the file.
C15_FirstRejectionIsReported ==
  [][ /\ (Rejected = {} /\ Rejected' # {}) =>
           /\ Rejected' = {error'}
           /\ pc' = "failed"
      /\ Rejected # {} =>
           /\ error' = error
           /\ pc' = "failed"
           /\ DOMAIN status' = DOMAIN status
           /\ locals' = locals
           /\ file' = file
           /\ writeCalls' = writeCalls ]_vars

\* both requests of a batch have rejected, the second one after the run had
\* failed; the one reported is the first
C15_Witness ==
  /\ pc = "failed"
  /\ Cardinality(Rejected) = 2
  /\ error \in Rejected
  /\ \A k \in Rejected : k[1] = error[1]
  /\ file.state # "exported"

\* every fetch stage has run to its end for every index of a non-empty listing
AllStagesCompleted ==
  LET n == Len(indexesListDetails) IN
    /\ Pending = {} /\ Rejected = {}
    /\ n > 0 =>
         /\ Len(settingsList) = n /\ Len(assignedContentTypesList) = n
         /\ Len(activeContentWebhooksList) = n /\ Len(archivedContentWebhooksList) = n
         /\ Len(replicaIndexesList) = n /\ Len(replicaIndexSettingsList) = n
         /\ \A p \in 1..n :
              /\ Completed(<<"settings", p, 0>>) /\ Completed(<<"assigned", p, 0>>)
              /\ Len(replicaIndexSettingsList[p]) = Len(replicas[p])
              /\ \A j \in DOMAIN replicas[p] :
                   Completed(<<"byName", p, j>>) /\ Completed(<<"replicaSettings", p, j>>)

\* C16: writeJsonToFile is called at most once in a run, and only when the
\* gate has answered true for the very path that is written, no fetch is
\* outstanding, every fetch stage is completed and every entry is assembled.
C16_WriteOnceAfterGateAndFetches ==
  /\ writeCalls <= 1
  /\ (paths.written # <<>>) = (writeCalls = 1)
  /\ (pc = "write" \/ writeCalls = 1) =>
       /\ proceed = "yes"
       /\ Completed(<<"prompt", 0, 0>>)
       /\ paths.prompted = <<"out", "indexes-h1-Acme.json">>
       /\ writeCalls = 1 => paths.written = paths.prompted
       /\ AllStagesCompleted
       /\ finalIndexesListDetails = [m \in DOMAIN TopLevel |-> IndexEntry(TopLevel[m])]

\* the write has been called for a listing of two indexes with replicas
C16_Witness ==
  /\ writeCalls = 1
  /\ paths.written = <<"out", "indexes-h1-Acme.json">>
  /\ Len(indexesListDetails) = 2
  /\ \E k \in DOMAIN status : k[1] = "replicaSettings"

FanOutStages == {"settings", "assigned", "active", "archived"}

\* the input position of its Promise.all that a request stands at
InputPosition(k) == IF k[1] \in ReplicaStages THEN k[3] ELSE k[2]

\* what the remote may answer to the request
Responses(k) ==
  CASE k[1] = "settings" -> { getIndexSettings(indexesListDetails[k[2]].id) }
    [] k[1] = "assigned" -> AssignedContentTypesOf(indexesListDetails[k[2]].id)
    [] k[1] = "active"   -> { <<getWebhook(activeContentWebhooks[k[2]])>> }
    [] k[1] = "archived" -> { <<getWebhook(archivedContentWebhooks[k[2]])>> }
    [] k[1] = "byName"   -> { getIndexByName(replicas[k[2]][k[3]]) }
    [] k[1] = "replicaSettings" ->
         { getIndexSettings(replicaIndexesList[k[2]][k[3]].id) }

\* C17: in every fan-out and every interleaving, the answer to the request
\* of input position p is stored once, in result slot p and in no other,
\* leaving the slots of the other positions as they are, also when two
\* entries of the listing have the same id; the settings of a written entry
\* are those fetched for the entry's own position.
C17_SlotOfOwnPosition ==
  /\ [][ \A k \in DOMAIN status :
           /\ status[k] = "ok" => status'[k] = "ok"
           /\ (k[1] \in FanOutStages \cup ReplicaStages
                 /\ status[k] = "pending" /\ status'[k] = "ok") =>
                /\ InputPosition(k) \notin DOMAIN values
                /\ DOMAIN values' = DOMAIN values \cup {InputPosition(k)}
                /\ \A q \in DOMAIN values : values'[q] = values[q]
                /\ values'[InputPosition(k)] \in Responses(k) ]_vars
  /\ [](settingsList # <<>> =>
          \A p \in DOMAIN indexesListDetails :
            settingsList[p] = getIndexSettings(indexesListDetails[p].id))
  /\ [](Exported =>
          \A m \in DOMAIN file.doc :
            /\ file.doc[m].settings = settingsList[PositionOf(m)]
            /\ file.doc[m].id = indexesListDetails[PositionOf(m)].id
            /\ file.doc[m].settings = getIndexSettings(file.doc[m].id))

\* a written document of two entries with the same id whose assignment
\* requests were answered differently
C17_Witness ==
  /\ Exported
  /\ Len(file.doc) = 2
  /\ file.doc[1].id = file.doc[2].id
  /\ file.doc[1].indexDetails # file.doc[2].indexDetails

\* the place of a stage in the fixed order
Rank(stage) ==
  CASE stage = "list"            -> 0
    [] stage = "settings"        -> 1
    [] stage = "assigned"        -> 2
    [] stage = "active"          -> 3
    [] stage = "archived"        -> 4
    [] stage = "byName"          -> 5
    [] stage = "replicaSettings" -> 6
    [] stage = "prompt"          -> 7

\* a request of this rank or a later one has been issued, or the write called
Reached(r) ==
  \/ \E k \in DOMAIN status : Rank(k[1]) >= r
  \/ pc = "write"
  \/ writeCalls > 0

\* every request the stage is to issue for the listing
StageRequests(stage) ==
  CASE stage \in {"list", "prompt"} -> { <<stage, 0, 0>> }
    [] stage \in {"settings", "assigned"} ->
         { <<stage, p, 0>> : p \in DOMAIN indexesListDetails }
    [] stage = "active"   -> { <<stage, p, 0>> : p \in NonNull(activeContentWebhooks) }
    [] stage = "archived" -> { <<stage, p, 0>> : p \in NonNull(archivedContentWebhooks) }
    [] stage = "byName" ->
         UNION { { <<stage, p, j>> : j \in DOMAIN replicas[p] } : p \in DOMAIN replicas }
    [] stage = "replicaSettings" ->
         UNION { { <<stage, p, j>> : j \in DOMAIN replicaIndexesList[p] } :
                 p \in DOMAIN replicaIndexesList }

Stages == {"list", "settings", "assigned", "active", "archived", "byName",
           "replicaSettings", "prompt"}

\* C18: the stages run in the fixed order settings, assignments, active
\* webhooks, archived webhooks, replica by-name lookups, replica settings,
\* overwrite gate, write: when a request of a stage has been issued (or the
\* write called), every request of every earlier stage has been issued and
\* answered successfully.
C18_StagesInFixedOrder ==
  /\ \A k1, k2 \in DOMAIN status : Rank(k1[1]) < Rank(k2[1]) => status[k1] = "ok"
  /\ \A stage \in Stages :
       Reached(Rank(stage) + 1) =>
         /\ \A k \in StageRequests(stage) : Completed(k)
         /\ stage = "byName" => Len(replicaIndexesList) = Len(indexesListDetails)
         /\ stage = "replicaSettings" =>
              Len(replicaIndexSettingsList) = Len(indexesListDetails)

\* the write has been called after requests of all seven fetch stages
C18_Witness ==
  /\ writeCalls = 1
  /\ \A stage \in Stages : \E k \in DOMAIN status : k[1] = stage

RECURSIVE ReplicasDeclared(_)
\* the sum of the lengths of the replicas lists of the listing's indexes
ReplicasDeclared(list) ==
  IF list = <<>> THEN 0
  ELSE Len(ReplicasOf(getIndexSettings(list[1].id))) + ReplicasDeclared(Tail(list))

Issued(stage) == { k \in DOMAIN status : k[1] = stage }

\* the positions of the indexes that have a parentId and declare replicas
ParentedWithReplicas ==
  { p \in DOMAIN replicas : IsReplica(indexesListDetails[p]) /\ Len(replicas[p]) > 0 }

\* C19: the replicas of every input index are expanded, those of an index
\* with a parentId too: each iteration of the first loop issues a by-name
\* lookup per declared name, a run that gets past the first loop has issued
\* as many by-name lookups as the replicas lists of all input indexes have
\* names, and a rejected replica request of an index with a parentId fails
\* the run with no file written.
C19_ReplicasOfEveryIndexExpanded ==
  /\ pc = "byName" =>
       \A j \in DOMAIN replicas[i] : <<"byName", i, j>> \in DOMAIN status
  /\ pc = "replicaSettings" =>
       \A j \in DOMAIN replicas[i] : <<"replicaSettings", i, j>> \in DOMAIN status
  /\ (Issued("prompt") # {} /\ Len(indexesListDetails) > 0) =>
       /\ Cardinality(Issued("byName")) = ReplicasDeclared(indexesListDetails)
       /\ Cardinality(Issued("replicaSettings")) = ReplicasDeclared(indexesListDetails)
       /\ \A p \in ParentedWithReplicas :
            Len(replicaIndexSettingsList[p]) = Len(replicas[p])
  /\ \A k \in Rejected :
       (k[1] \in ReplicaStages /\ k[2] \in ParentedWithReplicas) =>
         pc = "failed" /\ file.state # "exported" /\ writeCalls = 0

\* a written document for a listing with an index that has a parentId and
\* declares a replica, whose lookup was issued
C19_Witness ==
  /\ Exported
  /\ ParentedWithReplicas # {}
  /\ \E k \in Issued("byName") : k[2] \in ParentedWithReplicas
  /\ Len(file.doc) < Len(indexesListDetails)

\* the listing request was answered with no index
EmptyListing == Completed(<<"list", 0, 0>>) /\ Len(indexesListDetails) = 0

\* C20: when the listing is empty no settings, assignment, webhook or replica
\* request is ever issued, but the overwrite gate is asked all the same; the
\* run ends with the notice only if the gate declined, and if the gate
\* approves the document written is the empty sequence and the outcome is
\* "file written".
C20_EmptyListingStillWrites ==
  EmptyListing =>
    /\ DOMAIN status \subseteq { <<"list", 0, 0>>, <<"prompt", 0, 0>> }
    /\ pc # "list" => <<"prompt", 0, 0>> \in DOMAIN status
    /\ pc \notin {"returned", "settings"}
    /\ pc = nothingExportedExit => proceed = "no" /\ file.state = "original"
    /\ pc = "write" => proceed = "yes" /\ finalIndexesListDetails = <<>>
    /\ pc = "exported" =>
         /\ FileWritten
         /\ file = writeJsonToFile(<<>>)
         /\ paths.written = paths.prompted

\* the file with the empty sequence has been written for an empty listing
C20_Witness ==
  /\ EmptyListing
  /\ FileWritten
  /\ file.doc = <<>>
  /\ proceed = "yes"

====
